---------------------------- MODULE Spec2Model ----------------------------
(***************************************************************************)
(* A model of src/App.jsx, the TetracyclinePKCalculator component: its     *)
(* useState fields, their onChange handlers, and handleCalculate with the  *)
(* three functions it calls (parsePoints, trapezoidalAUC,                  *)
(* estimateTerminalK).                                                     *)
(*                                                                         *)
(* Numbers.  A JavaScript Number is a binary floating-point value: every   *)
(* +, -, *, / returns the exact result rounded to the nearest value with a *)
(* fixed number of significant bits, ties to even.  The model keeps that   *)
(* rounding after every operation, with Precision significant bits where   *)
(* the engine has 53.  A finite number is <<m, e>>, standing for m * 2^e,  *)
(* with m odd (or <<0, 0>> for zero); NaN is <<0, 1>>.  The exponent is    *)
(* not bounded, so there is no overflow to Infinity and no underflow to 0, *)
(* and -0 is not told apart from 0.  null and undefined are <<>>.          *)
(*                                                                         *)
(* Strings are sequences of one-character strings.                         *)
(***************************************************************************)
EXTENDS Integers, Sequences, FiniteSets, TLC

VARIABLES dose, route, F, Vd, Cl, t12, ka, tau, cssTarget, pointsCsv, results,
          submitted, nEdits, arg, ret

vars == <<dose, route, F, Vd, Cl, t12, ka, tau, cssTarget, pointsCsv, results,
          submitted, nEdits, arg, ret>>

-----------------------------------------------------------------------------
(* Bounds of the model *)

\* significant bits of a Number (the engine's binary64 has 53)
Precision == 5

-----------------------------------------------------------------------------
(* Numbers *)

Null == <<>>
NaN == <<0, 1>>
Zero == <<0, 0>>

IsNaN(x) == x = NaN
IsNum(x) == Len(x) = 2

Abs(n) == IF n < 0 THEN -n ELSE n
Sgn(n) == IF n < 0 THEN -1 ELSE IF n > 0 THEN 1 ELSE 0
Max(a, b) == IF a > b THEN a ELSE b
Min(a, b) == IF a < b THEN a ELSE b

\* number of bits of the natural number n
RECURSIVE BitLen(_)
BitLen(n) == IF n = 0 THEN 0 ELSE 1 + BitLen(n \div 2)

\* the canonical pair for m * 2^e: m odd, or <<0, 0>>
RECURSIVE Norm(_, _)
Norm(m, e) ==
  IF m = 0 THEN Zero
  ELSE IF m % 2 = 0 THEN Norm(m \div 2, e + 1)
  ELSE <<m, e>>

\* m * 2^e (with sticky: plus a positive amount below one unit of m's last
\* place) rounded to Precision significant bits, to nearest, ties to even
RoundTo(m, e, sticky) ==
  LET a == Abs(m)
      k == BitLen(a) - Precision
  IN IF k <= 0 THEN Norm(m, e)
     ELSE LET q == a \div (2 ^ k)
              r == a % (2 ^ k)
              half == 2 ^ (k - 1)
              up == \/ r > half
                    \/ r = half /\ sticky
                    \/ r = half /\ q % 2 = 1
          IN Norm(Sgn(m) * (IF up THEN q + 1 ELSE q), e + k)

\* the integer ratio n / d (d > 0) as a Number: a decimal literal's value
NumberOf(n, d) ==
  LET a == Abs(n)
      s == Max(0, Precision + 2 + BitLen(d) - BitLen(a))
      q == (a * (2 ^ s)) \div d
      rem == (a * (2 ^ s)) % d
  IN IF n = 0 THEN Zero ELSE RoundTo(Sgn(n) * q, -s, rem # 0)

\* x + y
Add(x, y) ==
  IF IsNaN(x) \/ IsNaN(y) THEN NaN
  ELSE LET e == Min(x[2], y[2])
       IN RoundTo(x[1] * (2 ^ (x[2] - e)) + y[1] * (2 ^ (y[2] - e)), e, FALSE)

\* -x
Neg(x) == IF IsNaN(x) THEN NaN ELSE <<-x[1], x[2]>>

\* x - y
Sub(x, y) == Add(x, Neg(y))

\* x * y
Mul(x, y) ==
  IF IsNaN(x) \/ IsNaN(y) THEN NaN
  ELSE RoundTo(x[1] * y[1], x[2] + y[2], FALSE)

\* x / y; the code divides only by values it has tested to be nonzero, and
\* a zero divisor (Infinity or NaN in the engine) is NaN here
Div(x, y) ==
  IF IsNaN(x) \/ IsNaN(y) \/ y = Zero THEN NaN
  ELSE IF x = Zero THEN Zero
  ELSE LET a == Abs(x[1])
           b == Abs(y[1])
           s == Max(0, Precision + 2 + BitLen(b) - BitLen(a))
           q == (a * (2 ^ s)) \div b
           rem == (a * (2 ^ s)) % b
       IN RoundTo(Sgn(x[1]) * Sgn(y[1]) * q, x[2] - y[2] - s, rem # 0)

\* the sign of x - y computed exactly: -1, 0 or 1 (x, y not NaN)
Cmp(x, y) ==
  LET e == Min(x[2], y[2])
  IN Sgn(x[1] * (2 ^ (x[2] - e)) - y[1] * (2 ^ (y[2] - e)))

\* x > y, false when either is NaN
Gt(x, y) == ~IsNaN(x) /\ ~IsNaN(y) /\ Cmp(x, y) > 0

\* ToBoolean of a Number or null: false for null, 0 and NaN
Truthy(x) == x # Null /\ x # Zero /\ x # NaN

\* a || b
Or(a, b) == IF Truthy(a) THEN a ELSE b

\* binary digits after the point in LnOdd and Ln2
LnScale == 20

\* ln(2) * 2^LnScale, to the nearest integer
Ln2 == 726817

\* ln(m) * 2^LnScale, to the nearest integer, for the odd m = 1, 3, ..., 63
LnOdd ==
  << 0, 1151978, 1687618, 2040435, 2303957, 2514375, 2689544, 2839596,
     2970840, 3087468, 3192413, 3287804, 3375236, 3455935, 3530866, 3600797,
     3666354, 3728053, 3786322, 3841523, 3893963, 3943904, 3991575, 4037172,
     4080869, 4122818, 4163153, 4201993, 4239447, 4275608, 4310564, 4344392 >>

\* Math.log(x) for x > 0: ln(m * 2^e) = ln(m) + e * ln(2), rounded once
Log(x) == RoundTo(LnOdd[(x[1] + 1) \div 2] + x[2] * Ln2, -LnScale, FALSE)

-----------------------------------------------------------------------------
(* Strings *)

Digits == {"0", "1", "2", "3", "4", "5", "6", "7", "8", "9"}

DigitVal(ch) ==
  CASE ch = "0" -> 0 [] ch = "1" -> 1 [] ch = "2" -> 2 [] ch = "3" -> 3
    [] ch = "4" -> 4 [] ch = "5" -> 5 [] ch = "6" -> 6 [] ch = "7" -> 7
    [] ch = "8" -> 8 [] ch = "9" -> 9

\* the value of a run of decimal digits (0 for the empty run)
RECURSIVE DigitsVal(_)
DigitsVal(ds) ==
  IF ds = <<>> THEN 0
  ELSE 10 * DigitsVal(SubSeq(ds, 1, Len(ds) - 1)) + DigitVal(ds[Len(ds)])

\* the length of the longest prefix of s made of digits
RECURSIVE DigitRun(_)
DigitRun(s) ==
  IF s # <<>> /\ Head(s) \in Digits THEN 1 + DigitRun(Tail(s)) ELSE 0

Drop(s, n) == SubSeq(s, n + 1, Len(s))

RECURSIVE TrimStart(_)
TrimStart(s) == IF s # <<>> /\ Head(s) = " " THEN TrimStart(Tail(s)) ELSE s

RECURSIVE TrimEnd(_)
TrimEnd(s) ==
  IF s # <<>> /\ s[Len(s)] = " " THEN TrimEnd(SubSeq(s, 1, Len(s) - 1)) ELSE s

\* String.prototype.trim
trim(s) == TrimEnd(TrimStart(s))

\* the index of the first sep in s, 0 when there is none
RECURSIVE IndexOf(_, _)
IndexOf(s, sep) ==
  IF s = <<>> THEN 0
  ELSE IF Head(s) = sep THEN 1
  ELSE LET i == IndexOf(Tail(s), sep) IN IF i = 0 THEN 0 ELSE i + 1

\* String.prototype.split with a one-character separator: always at least
\* one piece, the empty string splitting to one empty piece
RECURSIVE split(_, _)
split(s, sep) ==
  LET i == IndexOf(s, sep)
  IN IF i = 0 THEN <<s>>
     ELSE <<SubSeq(s, 1, i - 1)>> \o split(Drop(s, i), sep)

\* The longest prefix of s that is a decimal literal (sign, digits, point,
\* digits; at least one digit), as [len, val]; len = 0 when no prefix is
\* one.  s holds no exponent part and no "Infinity".
DecimalPrefix(s) ==
  LET signed == s # <<>> /\ Head(s) \in {"+", "-"}
      body == IF signed THEN Tail(s) ELSE s
      ni == DigitRun(body)
      rest == Drop(body, ni)
      nf == IF rest # <<>> /\ Head(rest) = "." THEN DigitRun(Tail(rest)) ELSE 0
      point == IF rest # <<>> /\ Head(rest) = "." /\ (ni > 0 \/ nf > 0)
               THEN 1 ELSE 0
      mag == DigitsVal(SubSeq(body, 1, ni) \o SubSeq(rest, 2, nf + 1))
      val == NumberOf(IF signed /\ Head(s) = "-" THEN -mag ELSE mag, 10 ^ nf)
  IN IF ni + nf = 0 THEN [len |-> 0, val |-> NaN]
     ELSE [len |-> (IF signed THEN 1 ELSE 0) + ni + point + nf, val |-> val]

\* ToString(undefined)
Undefined == <<"u", "n", "d", "e", "f", "i", "n", "e", "d">>

\* parseFloat: leading white space skipped, the longest decimal prefix
\* parsed; an argument that is no string is converted to one first
parseFloat(s) == DecimalPrefix(TrimStart(s)).val

\* unary +, on a string: white space trimmed, the empty string is 0, and the
\* whole of what is left must be a numeric literal
ToNumber(s) ==
  LET t == trim(s)
      p == DecimalPrefix(t)
  IN IF t = <<>> THEN Zero
     ELSE IF p.len = Len(t) THEN p.val
     ELSE NaN

-----------------------------------------------------------------------------
(* parsePoints *)

\* the map callback: p.split(":").map(trim) destructured into [t, c]
Point(p) ==
  LET parts == split(p, ":")
      t == trim(parts[1])
      c == IF Len(parts) >= 2 THEN trim(parts[2]) ELSE Undefined
  IN [t |-> parseFloat(t), c |-> parseFloat(c)]

\* the comparator (a, b) => a.t - b.t as sort reads it: NaN counts as 0
SortCompare(a, b) ==
  LET v == Sub(a.t, b.t) IN IF IsNaN(v) THEN 0 ELSE Sgn(v[1])

\* The comparator is consistent on arr: no NaN time, or all times compare
\* equal.  Otherwise the order sort leaves is implementation-defined.
ConsistentCompare(arr) ==
  \/ \A i \in 1..Len(arr) : ~IsNaN(arr[i].t)
  \/ \A i, j \in 1..Len(arr) : SortCompare(arr[i], arr[j]) = 0

\* SortInsert putting x before the elements that compare equal to it
RECURSIVE SortInsertBeforeEqual(_, _)
SortInsertBeforeEqual(s, x) ==
  IF s # <<>> /\ SortCompare(s[Len(s)], x) >= 0
  THEN SortInsertBeforeEqual(SubSeq(s, 1, Len(s) - 1), x) \o <<s[Len(s)]>>
  ELSE s \o <<x>>

\* x put into the sorted sequence s after every element not greater than it
RECURSIVE SortInsert(_, _)
SortInsert(s, x) ==
  IF s # <<>> /\ SortCompare(s[Len(s)], x) > 0
  THEN SortInsert(SubSeq(s, 1, Len(s) - 1), x) \o <<s[Len(s)]>>
  ELSE s \o <<x>>

\* Array.prototype.sort with the comparator: a stable sort
RECURSIVE sort(_)
sort(arr) ==
  IF arr = <<>> THEN <<>>
  ELSE SortInsert(sort(SubSeq(arr, 1, Len(arr) - 1)), arr[Len(arr)])

\* csv.split(",").map(...)
MapPoints(csv) == LET ps == split(csv, ",") IN [i \in 1..Len(ps) |-> Point(ps[i])]

\* parsePoints.  csv is the textarea's value, a string, and on a string
\* none of split, map, trim, parseFloat and sort throws: the catch, which
\* returns the empty array, is not taken.
parsePoints(csv) == sort(MapPoints(csv))

-----------------------------------------------------------------------------
(* trapezoidalAUC *)

Two == NumberOf(2, 1)

\* the for loop from index i (counted from 1) with auc so far
RECURSIVE AucLoop(_, _, _)
AucLoop(points, i, auc) ==
  IF i > Len(points) THEN auc
  ELSE LET dt == Sub(points[i].t, points[i - 1].t)
           avgC == Div(Add(points[i].c, points[i - 1].c), Two)
       IN AucLoop(points, i + 1, Add(auc, Mul(avgC, dt)))

\* trapezoidalAUC sorting its argument by time first
trapezoidalAUCSorted(points) == AucLoop(sort(points), 2, Zero)

trapezoidalAUC(points) == AucLoop(points, 2, Zero)

-----------------------------------------------------------------------------
(* estimateTerminalK *)

\* xs.reduce((a, b) => a + b, 0)
RECURSIVE Sum(_)
Sum(xs) ==
  IF xs = <<>> THEN Zero ELSE Add(Sum(SubSeq(xs, 1, Len(xs) - 1)), xs[Len(xs)])

\* the regression loop from index i (counted from 1): [num, den]
RECURSIVE FitLoop(_, _, _, _, _, _)
FitLoop(xs, ys, xbar, ybar, i, acc) ==
  IF i > Len(xs) THEN acc
  ELSE FitLoop(xs, ys, xbar, ybar, i + 1,
         [num |-> Add(acc.num, Mul(Sub(xs[i], xbar), Sub(ys[i], ybar))),
          den |-> Add(acc.den, Mul(Sub(xs[i], xbar), Sub(xs[i], xbar)))])

\* points.filter((p) => p.c > 0)
Nonzero(points) == SelectSeq(points, LAMBDA p : Gt(p.c, Zero))

\* nonzero.slice(-4)
LastFour(nonzero) == SubSeq(nonzero, Max(1, Len(nonzero) - 3), Len(nonzero))

estimateTerminalK(points) ==
  LET nonzero == Nonzero(points)
      last == LastFour(nonzero)
      xs == [i \in 1..Len(last) |-> last[i].t]
      ys == [i \in 1..Len(last) |-> Log(last[i].c)]
      n == NumberOf(Len(xs), 1)
      xbar == Div(Sum(xs), n)
      ybar == Div(Sum(ys), n)
      fit == FitLoop(xs, ys, xbar, ybar, 1, [num |-> Zero, den |-> Zero])
      slope == Div(fit.num, fit.den)
      k == Neg(slope)
  IN IF Len(nonzero) < 2 THEN Null
     ELSE IF fit.den = Zero THEN Null
     ELSE IF Gt(k, Zero) THEN k ELSE Null

-----------------------------------------------------------------------------
(* handleCalculate *)

One == NumberOf(1, 1)

\* the literal 0.693
Ln2Literal == NumberOf(693, 1000)

\* PeakLoop comparing with >=, so that the last of a tied maximum wins
RECURSIVE PeakLoopLastWins(_, _, _)
PeakLoopLastWins(points, i, peak) ==
  IF i > Len(points) THEN peak
  ELSE PeakLoopLastWins(points, i + 1,
         IF Gt(points[i].c, peak.Cmax) \/ points[i].c = peak.Cmax
         THEN [Cmax |-> points[i].c, Tmax |-> points[i].t]
         ELSE peak)

\* points.forEach((p) => { if (p.c > Cmax) { Cmax = p.c; Tmax = p.t; } })
\* from index i (counted from 1)
RECURSIVE PeakLoop(_, _, _)
PeakLoop(points, i, peak) ==
  IF i > Len(points) THEN peak
  ELSE PeakLoop(points, i + 1,
         IF Gt(points[i].c, peak.Cmax)
         THEN [Cmax |-> points[i].c, Tmax |-> points[i].t]
         ELSE peak)

\* SelectK preferring the clearance/volume candidate to the terminal slope
SelectKClearanceFirst(k_est, k_from_cl_vd, k_from_t12) ==
  IF Truthy(k_from_cl_vd) THEN k_from_cl_vd
  ELSE IF Truthy(k_est) THEN k_est
  ELSE IF Truthy(k_from_t12) THEN k_from_t12
  ELSE Null

\* k_est || k_from_cl_vd || k_from_t12 || null
SelectK(k_est, k_from_cl_vd, k_from_t12) ==
  Or(Or(Or(k_est, k_from_cl_vd), k_from_t12), Null)

\* LastC reading the peak concentration instead of the last one
LastCPeak(points) ==
  IF Len(points) # 0
  THEN CHOOSE c \in {points[i].c : i \in 1..Len(points)} :
         \A j \in 1..Len(points) : ~Gt(points[j].c, c)
  ELSE Zero

\* points.length ? points[points.length - 1].c : 0
LastC(points) == IF Len(points) # 0 THEN points[Len(points)].c ELSE Zero

\* k ? auc + lastC / k : null
AucInf(auc, lastC, k) == IF Truthy(k) THEN Add(auc, Div(lastC, k)) ELSE Null

\* cssTarget * (Cl || (k && Vd ? k * Vd : 0))
MaintenanceRate(s, k) ==
  Mul(s.cssTarget,
      Or(s.Cl, IF Truthy(k) /\ Truthy(s.Vd) THEN Mul(k, s.Vd) ELSE Zero))

\* MaintenanceDose without the guard on tau
MaintenanceDoseRawTau(s, MD_rate) == Div(Mul(MD_rate, s.tau), Or(s.F, One))

\* MaintenanceDose applying F to the oral route only
MaintenanceDoseByRoute(s, MD_rate) ==
  Div(Mul(MD_rate, Or(s.tau, One)), IF s.route = "iv" THEN One ELSE Or(s.F, One))

\* MD_rate * (tau || 1) / (F || 1)
MaintenanceDose(s, MD_rate) == Div(Mul(MD_rate, Or(s.tau, One)), Or(s.F, One))

\* The record handleCalculate passes to setResults, computed from the
\* component's state s as the handler's closure reads it.
handleCalculate(s) ==
  LET points == parsePoints(s.pointsCsv)
      auc == trapezoidalAUC(points)
      k_from_t12 == IF Truthy(s.t12) THEN Div(Ln2Literal, s.t12) ELSE Null
      k_from_cl_vd == IF Truthy(s.Cl) /\ Truthy(s.Vd) THEN Div(s.Cl, s.Vd) ELSE Null
      k_est == estimateTerminalK(points)
      k == SelectK(k_est, k_from_cl_vd, k_from_t12)
      t_half == IF Truthy(k) THEN Div(Ln2Literal, k) ELSE Null
      lastC == LastC(points)
      aucInf == AucInf(auc, lastC, k)
      peak == PeakLoop(points, 1, [Cmax |-> Zero, Tmax |-> Zero])
      LD == Div(Mul(s.cssTarget, s.Vd), Or(s.F, One))
      MD_rate == MaintenanceRate(s, k)
      MD == MaintenanceDose(s, MD_rate)
  IN [points |-> points, auc |-> auc, k_from_t12 |-> k_from_t12,
      k_from_cl_vd |-> k_from_cl_vd, k_est |-> k_est, k |-> k,
      t_half |-> t_half, aucInf |-> aucInf, Cmax |-> peak.Cmax,
      Tmax |-> peak.Tmax, LD |-> LD, MD |-> MD, MD_rate |-> MD_rate,
      lastC |-> lastC]

-----------------------------------------------------------------------------
(* The component *)

\* the useState values of the current render
State ==
  [dose |-> dose, route |-> route, F |-> F, Vd |-> Vd, Cl |-> Cl, t12 |-> t12,
   ka |-> ka, tau |-> tau, cssTarget |-> cssTarget, pointsCsv |-> pointsCsv]

DefaultCsv ==
  <<"0", ":", "0", ",", "1", ":", "2", ".", "1", ",", "2", ":", "3", ".", "5", ",", "4", ":", "2", ".", "2", ",", "6", ":", "1", ".", "1", ",", "8", ":", "0", ".", "6">>

\* the useState initial values
InitialState ==
  [dose |-> NumberOf(500, 1), route |-> "oral", F |-> NumberOf(6, 10),
   Vd |-> NumberOf(40, 1), Cl |-> NumberOf(4, 1), t12 |-> NumberOf(8, 1),
   ka |-> NumberOf(12, 10), tau |-> NumberOf(12, 1),
   cssTarget |-> NumberOf(2, 1), pointsCsv |-> DefaultCsv]

\* what a number input's e.target.value can be: the empty string or a
\* valid floating-point number
NumberInputs == {<<>>, <<"0">>, <<"1", ".", "5">>}

\* the select's option values
RouteOptions == {"oral", "iv"}

\* texts typed into the textarea
CsvInputs == {<<"a", "b", "c">>, <<"1", ":", "2", ",", "4", ":", "1">>}

\* field edits in one run of the component
MaxEdits == 2

Edit == nEdits < MaxEdits /\ nEdits' = nEdits + 1

\* onChange={(e) => setDose(+e.target.value)}
setDose ==
  \E v \in NumberInputs :
    /\ Edit
    /\ dose' = ToNumber(v)
    /\ UNCHANGED <<route, F, Vd, Cl, t12, ka, tau, cssTarget, pointsCsv,
                   results, submitted, arg, ret>>

\* onChange={(e) => setRoute(e.target.value)}
setRoute ==
  \E v \in RouteOptions :
    /\ Edit
    /\ route' = v
    /\ UNCHANGED <<dose, F, Vd, Cl, t12, ka, tau, cssTarget, pointsCsv,
                   results, submitted, arg, ret>>

\* onChange={(e) => setF(+e.target.value)}
setF ==
  \E v \in NumberInputs :
    /\ Edit
    /\ F' = ToNumber(v)
    /\ UNCHANGED <<dose, route, Vd, Cl, t12, ka, tau, cssTarget, pointsCsv,
                   results, submitted, arg, ret>>

\* onChange={(e) => setVd(+e.target.value)}
setVd ==
  \E v \in NumberInputs :
    /\ Edit
    /\ Vd' = ToNumber(v)
    /\ UNCHANGED <<dose, route, F, Cl, t12, ka, tau, cssTarget, pointsCsv,
                   results, submitted, arg, ret>>

\* onChange={(e) => setCl(+e.target.value)}
setCl ==
  \E v \in NumberInputs :
    /\ Edit
    /\ Cl' = ToNumber(v)
    /\ UNCHANGED <<dose, route, F, Vd, t12, ka, tau, cssTarget, pointsCsv,
                   results, submitted, arg, ret>>

\* onChange={(e) => setT12(+e.target.value)}
setT12 ==
  \E v \in NumberInputs :
    /\ Edit
    /\ t12' = ToNumber(v)
    /\ UNCHANGED <<dose, route, F, Vd, Cl, ka, tau, cssTarget, pointsCsv,
                   results, submitted, arg, ret>>

\* onChange={(e) => setKa(+e.target.value)}
setKa ==
  \E v \in NumberInputs :
    /\ Edit
    /\ ka' = ToNumber(v)
    /\ UNCHANGED <<dose, route, F, Vd, Cl, t12, tau, cssTarget, pointsCsv,
                   results, submitted, arg, ret>>

\* onChange={(e) => setTau(+e.target.value)}
setTau ==
  \E v \in NumberInputs :
    /\ Edit
    /\ tau' = ToNumber(v)
    /\ UNCHANGED <<dose, route, F, Vd, Cl, t12, ka, cssTarget, pointsCsv,
                   results, submitted, arg, ret>>

\* onChange={(e) => setCssTarget(+e.target.value)}
setCssTarget ==
  \E v \in NumberInputs :
    /\ Edit
    /\ cssTarget' = ToNumber(v)
    /\ UNCHANGED <<dose, route, F, Vd, Cl, t12, ka, tau, pointsCsv,
                   results, submitted, arg, ret>>

\* onChange={(e) => setPointsCsv(e.target.value)}
setPointsCsv ==
  \E v \in CsvInputs :
    /\ Edit
    /\ pointsCsv' = v
    /\ UNCHANGED <<dose, route, F, Vd, Cl, t12, ka, tau, cssTarget,
                   results, submitted, arg, ret>>

\* HandleCalculate keeping a result already held
HandleCalculateKeep ==
  /\ results' = IF results = Null THEN handleCalculate(State) ELSE results
  /\ submitted' = State
  /\ UNCHANGED <<dose, route, F, Vd, Cl, t12, ka, tau, cssTarget, pointsCsv,
                 nEdits, arg, ret>>

\* onSubmit={handleCalculate}: setResults({...}); submitted records the
\* state the handler read
HandleCalculate ==
  /\ results' = handleCalculate(State)
  /\ submitted' = State
  /\ UNCHANGED <<dose, route, F, Vd, Cl, t12, ka, tau, cssTarget, pointsCsv,
                 nEdits, arg, ret>>

NoCall == [fn |-> "none"]

\* the first render: the useState initial values, results null
Init ==
  /\ dose = InitialState.dose
  /\ route = InitialState.route
  /\ F = InitialState.F
  /\ Vd = InitialState.Vd
  /\ Cl = InitialState.Cl
  /\ t12 = InitialState.t12
  /\ ka = InitialState.ka
  /\ tau = InitialState.tau
  /\ cssTarget = InitialState.cssTarget
  /\ pointsCsv = InitialState.pointsCsv
  /\ results = Null
  /\ submitted = Null
  /\ nEdits = 0
  /\ arg = <<>>
  /\ ret = NoCall

Next ==
  \/ setDose
  \/ setRoute
  \/ setF
  \/ setVd
  \/ setCl
  \/ setT12
  \/ setKa
  \/ setTau
  \/ setCssTarget
  \/ setPointsCsv
  \/ HandleCalculate

Spec == Init /\ [][Next]_vars

-----------------------------------------------------------------------------
(* handleCalculate on any field values *)

\* most segments of a sample text
MaxSegments == 3

\* the segments s[1], ..., s[n] joined by commas
RECURSIVE JoinSegments(_)
JoinSegments(segs) ==
  IF Len(segs) = 1 THEN segs[1]
  ELSE JoinSegments(SubSeq(segs, 1, Len(segs) - 1)) \o <<",">> \o segs[Len(segs)]

\* The texts of 1..MaxSegments segments of S on which sort's order is
\* defined (see ConsistentCompare)
Texts(S) ==
  {t \in {JoinSegments(q) : q \in UNION {[1..n -> S] : n \in 1..MaxSegments}} :
     ConsistentCompare(MapPoints(t))}

CalcSegments == {<<"0", ":", "0">>, <<"1", ":", "2">>, <<"2", ":", "2">>, <<"4", ":", "1">>, <<"a", "b", "c">>}

\* a field as typed, or left at its initial value
FieldValues(initial) == {initial, ToNumber(<<"0">>)}

InitCalc ==
  /\ dose = InitialState.dose
  /\ route = InitialState.route
  /\ ka = InitialState.ka
  /\ F \in FieldValues(InitialState.F)
  /\ Vd \in FieldValues(InitialState.Vd)
  /\ Cl \in FieldValues(InitialState.Cl)
  /\ t12 \in FieldValues(InitialState.t12)
  /\ tau \in FieldValues(InitialState.tau)
  /\ cssTarget \in FieldValues(InitialState.cssTarget)
  /\ pointsCsv \in Texts(CalcSegments) \cup {DefaultCsv}
  /\ results = Null
  /\ submitted = Null
  /\ nEdits = 0
  /\ arg = <<>>
  /\ ret = NoCall

NextCalc == HandleCalculate

SpecCalc == InitCalc /\ [][NextCalc]_vars

-----------------------------------------------------------------------------
(* parsePoints on any text *)

ParseSegments ==
  {<<"1", ":", "2">>, <<"2", ":", "1">>, <<"1", ":", "4">>, <<" ", "1", " ", ":", " ", "3", " ">>, <<"1", ".", "5", ":", ".", "5">>, <<"a", "b", "c">>, <<"3">>, <<>>}

CallParsePoints ==
  /\ ret = NoCall
  /\ ret' = [fn |-> "parsePoints", val |-> parsePoints(pointsCsv)]
  /\ UNCHANGED <<dose, route, F, Vd, Cl, t12, ka, tau, cssTarget, pointsCsv,
                 results, submitted, nEdits, arg>>

InitParse ==
  /\ dose = InitialState.dose
  /\ route = InitialState.route
  /\ F = InitialState.F
  /\ Vd = InitialState.Vd
  /\ Cl = InitialState.Cl
  /\ t12 = InitialState.t12
  /\ ka = InitialState.ka
  /\ tau = InitialState.tau
  /\ cssTarget = InitialState.cssTarget
  /\ pointsCsv \in Texts(ParseSegments)
  /\ results = Null
  /\ submitted = Null
  /\ nEdits = 0
  /\ arg = <<>>
  /\ ret = NoCall

NextParse == CallParsePoints

SpecParse == InitParse /\ [][NextParse]_vars

-----------------------------------------------------------------------------
(* trapezoidalAUC and estimateTerminalK on any sample sequence *)

\* most samples of an argument
MaxPoints == 4

Sample(t, c) == [t |-> NumberOf(t, 1), c |-> NumberOf(c, 1)]

Samples ==
  {Sample(0, 0), Sample(1, 4), Sample(11, 1), Sample(11, 3), Sample(11, 4),
   [t |-> NaN, c |-> NaN]}

CallTrapezoidalAUC ==
  /\ ret' = [fn |-> "trapezoidalAUC", val |-> trapezoidalAUC(arg)]
  /\ UNCHANGED <<dose, route, F, Vd, Cl, t12, ka, tau, cssTarget, pointsCsv,
                 results, submitted, nEdits, arg>>

CallEstimateTerminalK ==
  /\ ret' = [fn |-> "estimateTerminalK", val |-> estimateTerminalK(arg)]
  /\ UNCHANGED <<dose, route, F, Vd, Cl, t12, ka, tau, cssTarget, pointsCsv,
                 results, submitted, nEdits, arg>>

InitFn ==
  /\ dose = InitialState.dose
  /\ route = InitialState.route
  /\ F = InitialState.F
  /\ Vd = InitialState.Vd
  /\ Cl = InitialState.Cl
  /\ t12 = InitialState.t12
  /\ ka = InitialState.ka
  /\ tau = InitialState.tau
  /\ cssTarget = InitialState.cssTarget
  /\ pointsCsv = InitialState.pointsCsv
  /\ results = Null
  /\ submitted = Null
  /\ nEdits = 0
  /\ arg \in UNION {[1..n -> Samples] : n \in 0..MaxPoints}
  /\ ret = NoCall

NextFn == CallTrapezoidalAUC \/ CallEstimateTerminalK

SpecFn == InitFn /\ [][NextFn]_vars

-----------------------------------------------------------------------------
(* Claims *)

\* the candidates a result record holds, in the order of their priority
Candidates(r) == <<r.k_est, r.k_from_cl_vd, r.k_from_t12>>

\* the first candidate that is not null, null when all are
FirstDefined(cs) ==
  IF \A i \in 1..Len(cs) : cs[i] = Null THEN Null
  ELSE cs[CHOOSE i \in 1..Len(cs) :
            cs[i] # Null /\ \A j \in 1..(i - 1) : cs[j] = Null]

IsDecimalText(t) ==
  LET body == IF t # <<>> /\ t[1] \in {"+", "-"} THEN Tail(t) ELSE t
  IN /\ \A i \in 1..Len(body) : body[i] \in Digits \cup {"."}
     /\ Cardinality({i \in 1..Len(body) : body[i] = "."}) <= 1
     /\ \E i \in 1..Len(body) : body[i] \in Digits

WellFormedSegment(p) ==
  \E i \in 1..Len(p) :
    /\ p[i] = ":"
    /\ IsDecimalText(trim(SubSeq(p, 1, i - 1)))
    /\ IsDecimalText(trim(SubSeq(p, i + 1, Len(p))))

\* the comma-separated segments of a text, cut at each comma
SegmentsOf(csv) ==
  LET commas == {i \in 1..Len(csv) : csv[i] = ","}
      cuts == commas \cup {0, Len(csv) + 1}
  IN {SubSeq(csv, a + 1, b - 1) : <<a, b>> \in
        {<<a, b>> \in cuts \X cuts :
           a < b /\ \A c \in cuts : ~(a < c /\ c < b)}}

NumCommas(csv) == Cardinality({i \in 1..Len(csv) : csv[i] = ","})

\* C2: parsePoints on a malformed text (a segment with a non-numeric token,
\* or with no colon) returns the empty sequence.
C2_MalformedIsEmpty ==
  (/\ ret.fn = "parsePoints"
   /\ \E p \in SegmentsOf(pointsCsv) : ~WellFormedSegment(p))
    => ret.val = <<>>

\* C3: the held result is null before any submission, and afterwards it is
\* the pipeline's output for the field values of the latest submission,
\* whatever was edited or submitted before or since.
C3_ResultOfLatestSubmission ==
  results = (IF submitted = Null THEN Null ELSE handleCalculate(submitted))

\* a result held across an edit that would change it
C3_Witness ==
  /\ results # Null
  /\ submitted # State
  /\ results # handleCalculate(State)

\* out is arr in an order that keeps the samples of equal time in arr's order
IsStableOrderOf(out, arr) ==
  /\ Len(out) = Len(arr)
  /\ \E f \in [1..Len(out) -> 1..Len(arr)] :
       /\ \A i, j \in 1..Len(out) : i # j => f[i] # f[j]
       /\ \A i \in 1..Len(out) : out[i] = arr[f[i]]
       /\ \A i, j \in 1..Len(out) :
            (i < j /\ out[i].t = out[j].t) => f[i] < f[j]

\* C4: on a text whose segments are all well-formed pairs, parsePoints
\* returns one sample per segment, in ascending order of time, the samples
\* of equal time all kept and in their input order.
C4_OnePerSegmentSortedStable ==
  (/\ ret.fn = "parsePoints"
   /\ \A p \in SegmentsOf(pointsCsv) : WellFormedSegment(p))
    => /\ Len(ret.val) = NumCommas(pointsCsv) + 1
       /\ \A i \in 1..Len(ret.val) : ~IsNaN(ret.val[i].t) /\ ~IsNaN(ret.val[i].c)
       /\ \A i, j \in 1..Len(ret.val) :
            i < j => ~Gt(ret.val[i].t, ret.val[j].t)
       /\ IsStableOrderOf(ret.val, MapPoints(pointsCsv))

\* a well-formed text given out of order, with two different samples of one
\* time
C4_Witness ==
  /\ ret.fn = "parsePoints"
  /\ \A p \in SegmentsOf(pointsCsv) : WellFormedSegment(p)
  /\ ret.val # MapPoints(pointsCsv)
  /\ \E i, j \in 1..Len(ret.val) :
       i < j /\ ret.val[i].t = ret.val[j].t /\ ret.val[i].c # ret.val[j].c

\* the area between the samples i - 1 and i
PairArea(points, i) ==
  Mul(Div(Add(points[i].c, points[i - 1].c), NumberOf(2, 1)),
      Sub(points[i].t, points[i - 1].t))

\* the areas of the adjacent pairs of the first n samples, added up
RECURSIVE AreaOfFirst(_, _)
AreaOfFirst(points, n) ==
  IF n <= 1 THEN Zero
  ELSE Add(AreaOfFirst(points, n - 1), PairArea(points, n))

\* C5: trapezoidalAUC returns the sum over the adjacent pairs, in the order
\* given, of (c[i] + c[i-1]) / 2 times (t[i] - t[i-1]); 0 for no sample or
\* one; a pair whose time decreases adds a negative area.
C5_TrapezoidSum ==
  ret.fn = "trapezoidalAUC" =>
    /\ ret.val = AreaOfFirst(arg, Len(arg))
    /\ Len(arg) <= 1 => ret.val = Zero
    /\ (/\ Len(arg) = 2
        /\ Gt(arg[1].t, arg[2].t)
        /\ Gt(Add(arg[1].c, arg[2].c), Zero)) => Gt(Zero, ret.val)

\* samples given out of time order, with a negative area
C5_Witness ==
  /\ ret.fn = "trapezoidalAUC"
  /\ Len(arg) >= 3
  /\ \E i \in 2..Len(arg) : Gt(arg[i - 1].t, arg[i].t)
  /\ Gt(Zero, ret.val)

\* the positions of the samples of concentration > 0
PositiveAt(points) == {i \in 1..Len(points) : Gt(points[i].c, Zero)}

\* the positions of the last four of them, of all when there are fewer
FittedAt(points) ==
  {i \in PositiveAt(points) :
     Cardinality({j \in PositiveAt(points) : j > i}) < 4}

\* C6: estimateTerminalK returns null when fewer than two samples have a
\* concentration > 0, and when the samples it fits all have the same time;
\* a value it returns is > 0.
C6_TerminalK ==
  ret.fn = "estimateTerminalK" =>
    /\ Cardinality(PositiveAt(arg)) < 2 => ret.val = Null
    /\ (\A i, j \in FittedAt(arg) : arg[i].t = arg[j].t) => ret.val = Null
    /\ ret.val # Null => Gt(ret.val, Zero)

\* C7: the extrapolated AUC is defined exactly when the selected k is; it is
\* then the trapezoidal AUC plus the last concentration of the time-sorted
\* samples divided by k, the last concentration being 0 for no samples.
C7_ExtrapolatedAuc ==
  results # Null =>
    LET points == parsePoints(submitted.pointsCsv)
        last == IF points = <<>> THEN Zero ELSE points[Len(points)].c
    IN /\ results.aucInf # Null <=> results.k # Null
       /\ results.k # Null =>
            results.aucInf = Add(trapezoidalAUC(points), Div(last, results.k))

\* a submission with k defined whose last concentration is neither 0 nor
\* the peak
C7_Witness ==
  /\ results # Null
  /\ results.k # Null
  /\ results.lastC # Zero
  /\ results.lastC # results.Cmax
  /\ results.aucInf # results.auc

\* C8: the peak is the maximum concentration and the time of the first
\* sample, in time-sorted order, that has it; 0 at time 0 when no sample has
\* a concentration > 0.
C8_Peak ==
  results # Null =>
    LET points == results.points
    IN IF PositiveAt(points) = {}
       THEN results.Cmax = Zero /\ results.Tmax = Zero
       ELSE \E i \in 1..Len(points) :
              /\ results.Cmax = points[i].c
              /\ results.Tmax = points[i].t
              /\ \A j \in 1..Len(points) : ~Gt(points[j].c, results.Cmax)
              /\ \A j \in 1..(i - 1) : points[j].c # results.Cmax

\* a maximum reached by two samples of different times
C8_Witness ==
  /\ results # Null
  /\ \E i, j \in 1..Len(results.points) :
       /\ i < j
       /\ results.points[i].c = results.Cmax
       /\ results.points[j].c = results.Cmax
       /\ results.points[i].t # results.points[j].t
       /\ results.Tmax = results.points[i].t
       /\ Gt(results.Cmax, Zero)

\* C9: the maintenance dose is a number, Css_target x R x T / G: R is Cl if
\* nonzero, else k x Vd if the selected k is defined and Vd nonzero, else 0;
\* T is tau, or 1 if tau is 0; G is F, or 1 if F is 0.
C9_MaintenanceDose ==
  results # Null =>
    LET s == submitted
        R == IF s.Cl # Zero THEN s.Cl
             ELSE IF results.k # Null /\ s.Vd # Zero THEN Mul(results.k, s.Vd)
             ELSE Zero
        T == IF s.tau = Zero THEN NumberOf(1, 1) ELSE s.tau
        G == IF s.F = Zero THEN NumberOf(1, 1) ELSE s.F
    IN /\ IsNum(results.MD) /\ ~IsNaN(results.MD)
       /\ results.MD = Div(Mul(Mul(s.cssTarget, R), T), G)

\* a submission with Cl and tau 0 whose dose comes from k x Vd
C9_Witness ==
  /\ results # Null
  /\ submitted.Cl = Zero
  /\ submitted.tau = Zero
  /\ results.k # Null
  /\ results.MD # Zero

\* C10: the result record does not depend on ka, dose or route: it is the
\* pipeline's output for the submitted values with ka, dose and route put
\* back to their initial values, so that two submissions differing in
\* nothing else hold the same record.
C10_IndependentOfKaDoseRoute ==
  results # Null =>
    results =
      handleCalculate([submitted EXCEPT !.dose = InitialState.dose,
                                        !.ka = InitialState.ka,
                                        !.route = InitialState.route])

\* a submission made after the dose and the route were edited
C10_Witness ==
  /\ results # Null
  /\ submitted.dose # InitialState.dose
  /\ submitted.route = "iv"
  /\ results.MD # Zero

=============================================================================
